---- MODULE Spec2Model ----
(***************************************************************************)
(* A model of file_manager.c: the storage primitives, the line-oriented    *)
(* rewrite operations, the changelog subsystem and the dispatcher wrappers *)
(* (the *Main functions) that sequence "perform the operation, then log    *)
(* it".                                                                    *)
(*                                                                         *)
(* A file's content is a sequence of characters; a character is a string.  *)
(* A directory is a function from the names that exist in it to contents.  *)
(* cwd is the working directory, clog the changelog directory.             *)
(***************************************************************************)
EXTENDS Integers, Sequences, FiniteSets, TLC

\* ioFailures counts the delete and rename calls the system has refused
VARIABLES cwd, clog, last, ioFailures

vars == <<cwd, clog, last, ioFailures>>

(* ------------------------------ constants ------------------------------ *)

ACTION_INSERT_LINE == 0
ACTION_APPEND_LINE == 1
ACTION_DELETE_LINE == 2
ACTION_CREATE_FILE == 3
ACTION_READ_FILE == 4
ACTION_READ_LINE == 5

TEMP_FILE_NAME == "file.tmp"

SUCCESS == 0
FAILURE == -1

\* stdio's end-of-file value, the sentinel of the scanning loops
EOF == -1

NL == "\n"

action_strings ==
    <<"Inserted line", "Appended line", "Deleted line", "Created file", "Read File", "Read Line">>

(* ------------------------------- bounds -------------------------------- *)

\* A scope bounds what the operator does in one specification: the target
\* file names and line contents typed, the characters the target files may
\* hold together (disk), the audit lines the changelog directory may hold
\* (log), and how many delete or rename calls the system may refuse (io).
Scope(names, contents, disk, log, io) ==
    [names |-> names, contents |-> contents, disk |-> disk, log |-> log, io |-> io]

\* line editing on one file
EditDisk == 4
EditLog == 1
EditScope == Scope({"f"}, {<<"a">>, <<"b">>}, EditDisk, EditLog, 0)

\* every dispatcher operation on one file
MaxDisk == 2
MaxLog == 2
FullScope == Scope({"f"}, {<<"a">>}, MaxDisk, MaxLog, 0)

\* line editing on one file while the system may refuse a delete or a rename
IODisk == 4
IOLog == 3
MaxIOFailures == 1
IOScope == Scope({"f"}, {<<"a">>}, IODisk, IOLog, MaxIOFailures)

\* creating, copying and editing two files
CopyDisk == 2
CopyLog == 1
CopyScope == Scope({"f", "g"}, {<<"a">>}, CopyDisk, CopyLog, 0)

\* values the uninitialised local current_character of
\* getNumberOfLinesInFile can hold when the loop condition first reads it
Uninitialised == {EOF, 0}

\* bytes that can follow the unterminated buffer copyFile prints with "%s"
StrayBytes == {<<>>, <<"a">>}

(* ------------------------- directory primitives ------------------------ *)

\* a directory that holds no file
EmptyDir == [x \in {} |-> <<>>]

Put(dir, name, content) ==
    [x \in (DOMAIN dir) \cup {name} |-> IF x = name THEN content ELSE dir[x]]

Remove(dir, name) == [x \in (DOMAIN dir) \ {name} |-> dir[x]]

Ret(res, dir) == [res |-> res, dir |-> dir]

fileExists(dir, file_name) == file_name \in DOMAIN dir

\* fopen(name, "a") / fopen(name, "w") on a directory
OpenAppend(dir, name) == IF fileExists(dir, name) THEN dir ELSE Put(dir, name, <<>>)

OpenWrite(dir, name) == Put(dir, name, <<>>)

\* createFile without the existence check, opening with "w"
createFileOverwrites(dir, file_name) == Ret(SUCCESS, OpenWrite(dir, file_name))

createFile(dir, file_name) ==
    IF fileExists(dir, file_name)
    THEN Ret(FAILURE, dir)
    ELSE Ret(SUCCESS, OpenAppend(dir, file_name))

\* remove() fails on a missing name, or when the system refuses (ioFail)
deleteFile(dir, file_name, ioFail) ==
    IF ~fileExists(dir, file_name) \/ ioFail
    THEN Ret(FAILURE, dir)
    ELSE Ret(SUCCESS, Remove(dir, file_name))

wrename(dir, old_file_name, new_file_name, ioFail) ==
    IF ~fileExists(dir, old_file_name) \/ ioFail
    THEN Ret(FAILURE, dir)
    ELSE Ret(SUCCESS, Put(Remove(dir, old_file_name), new_file_name, dir[old_file_name]))

getChangelogFileName(file_name) == file_name \o ".changelog"

(* ----------------------------- line counting --------------------------- *)

RECURSIVE CountFrom(_, _)
CountFrom(s, i) ==
    IF i > Len(s) THEN 0
    ELSE (IF s[i] = NL THEN 1 ELSE 0) + CountFrom(s, i + 1)

\* the number of line-break characters of s
CountLines(s) == CountFrom(s, 1)

\* uninit is what current_character holds before its first assignment: the
\* loop is skipped when that happens to be EOF
getNumberOfLinesInFile(s, uninit) ==
    IF uninit = EOF THEN 0 ELSE CountLines(s)

\* validateLineNumber accepting the line behind the last
validateLineNumberOffByOne(s, line_number, uninit) ==
    LET line_count == getNumberOfLinesInFile(s, uninit)
    IN  IF line_number > line_count + 1 \/ line_number < 1 THEN FAILURE ELSE SUCCESS

validateLineNumber(s, line_number, uninit) ==
    LET line_count == getNumberOfLinesInFile(s, uninit)
    IN  IF line_number > line_count \/ line_number < 1 THEN FAILURE ELSE SUCCESS

(* --------------------------- changelog and append ----------------------- *)

\* appendLineToFile opening with "w" instead of "a"
appendLineToFileOverwrites(dir, file_name, content) ==
    IF ~fileExists(dir, file_name)
    THEN Ret(FAILURE, dir)
    ELSE Ret(SUCCESS, Put(dir, file_name, content \o <<NL>>))

appendLineToFile(dir, file_name, content) ==
    IF ~fileExists(dir, file_name)
    THEN Ret(FAILURE, dir)
    ELSE Ret(SUCCESS, Put(dir, file_name, dir[file_name] \o content \o <<NL>>))

\* sprintf(changelog_string, "[%s] Number of lines after action: %d", ...)
ChangelogString(action, number_of_lines) ==
    <<"[", action_strings[action + 1], "] Number of lines after action: ",
      ToString(number_of_lines)>>

\* dir is the working directory, log the changelog directory; the result's
\* dir is the changelog directory afterwards
addActionToChangelog(dir, log, file_name, action, uninit) ==
    LET path == getChangelogFileName(file_name)
        opened == OpenAppend(log, path)
    IN  IF ~fileExists(dir, file_name)
        THEN Ret(FAILURE, opened)
        ELSE LET number_of_lines == getNumberOfLinesInFile(dir[file_name], uninit)
             IN  appendLineToFile(opened, path, ChangelogString(action, number_of_lines))

\* resetChangelog truncating the record instead of removing it
resetChangelogTruncates(log, file_name) ==
    LET path == getChangelogFileName(file_name)
    IN  IF ~fileExists(log, path) THEN Ret(FAILURE, log) ELSE Ret(SUCCESS, OpenWrite(log, path))

resetChangelog(log, file_name) ==
    LET path == getChangelogFileName(file_name)
    IN  IF ~fileExists(log, path) THEN Ret(FAILURE, log) ELSE Ret(SUCCESS, Remove(log, path))

\* deleteFileFromChangelog leaving the record where it is
deleteFileFromChangelogKeeps(log, file_name) == Ret(FAILURE, log)

deleteFileFromChangelog(log, file_name) ==
    deleteFile(log, getChangelogFileName(file_name), FALSE)

displayFile(dir, file_name) == IF fileExists(dir, file_name) THEN SUCCESS ELSE FAILURE

showChangelog(log, file_name) == displayFile(log, getChangelogFileName(file_name))

displayNumberOfLinesInFile(dir, file_name) ==
    IF fileExists(dir, file_name) THEN SUCCESS ELSE FAILURE

\* fprintf(new_file, "%s", file_contents) prints a buffer that holds no
\* terminator: stray is what lies behind it up to the first zero byte
copyFile(dir, source_file_name, new_file_name, stray) ==
    IF fileExists(dir, new_file_name) THEN Ret(FAILURE, dir)
    ELSE IF ~fileExists(dir, source_file_name) THEN Ret(FAILURE, dir)
    ELSE LET created == createFile(dir, new_file_name)
         IN  IF created.res # SUCCESS THEN Ret(FAILURE, created.dir)
             ELSE Ret(SUCCESS,
                      Put(OpenWrite(created.dir, new_file_name), new_file_name,
                          dir[source_file_name] \o stray))

(* ------------------------- the stream-copy loops ----------------------- *)

\* the character fgetc returns next is a line break
NextIsNL(s, i) == i + 1 <= Len(s) /\ s[i + 1] = NL

\* deleteLineFromFile's loop from character i on, current_line = cur
RECURSIVE DeleteLoop(_, _, _, _, _)
DeleteLoop(s, i, cur, line_number, out) ==
    IF i > Len(s) THEN out
    ELSE LET out2 == IF cur # line_number THEN Append(out, s[i]) ELSE out
             cur2 == IF NextIsNL(s, i) THEN cur + 1 ELSE cur
         IN  DeleteLoop(s, i + 1, cur2, line_number, out2)

\* insertLineInFile's loop from character i on, current_line = cur
RECURSIVE InsertLoop(_, _, _, _, _, _)
InsertLoop(s, i, cur, line_number, content, out) ==
    IF i > Len(s) THEN out
    ELSE LET out2 == IF cur # line_number
                     THEN Append(out, s[i])
                     ELSE out \o (IF line_number # 1 THEN <<NL>> ELSE <<>>)
                              \o content \o <<NL>>
             cur1 == IF cur # line_number THEN cur ELSE cur + 1
             cur2 == IF NextIsNL(s, i) THEN cur1 + 1 ELSE cur1
         IN  InsertLoop(s, i + 1, cur2, line_number, content, out2)

\* showLineFromFile's loop: the characters it prints
RECURSIVE ShowLoop(_, _, _, _, _)
ShowLoop(s, i, cur, line_number, out) ==
    IF i > Len(s) THEN out
    ELSE LET out2 == IF cur = line_number /\ s[i] # NL THEN Append(out, s[i]) ELSE out
             cur2 == IF NextIsNL(s, i) THEN cur + 1 ELSE cur
         IN  ShowLoop(s, i + 1, cur2, line_number, out2)

(* ------------------------- the rewrite operations ---------------------- *)

\* ReplaceSource leaving the scratch file behind when the delete fails
ReplaceSourceKeepsScratch(dir, file_name, delFails, renFails) ==
    LET deleted == deleteFile(dir, file_name, delFails)
    IN  IF deleted.res # SUCCESS
        THEN Ret(FAILURE, deleted.dir)
        ELSE wrename(deleted.dir, TEMP_FILE_NAME, file_name, renFails)

\* ReplaceSource reporting success whatever the rename returned
ReplaceSourceIgnoresRename(dir, file_name, delFails, renFails) ==
    LET deleted == deleteFile(dir, file_name, delFails)
    IN  IF deleted.res # SUCCESS
        THEN Ret(FAILURE, deleteFile(deleted.dir, TEMP_FILE_NAME, FALSE).dir)
        ELSE Ret(SUCCESS, wrename(deleted.dir, TEMP_FILE_NAME, file_name, renFails).dir)

\* delete the source, rename the scratch file to the source's name
ReplaceSource(dir, file_name, delFails, renFails) ==
    LET deleted == deleteFile(dir, file_name, delFails)
        not_deleted == deleted.res # SUCCESS
    IN  IF not_deleted
        THEN Ret(FAILURE, deleteFile(deleted.dir, TEMP_FILE_NAME, FALSE).dir)
        ELSE LET renamed == wrename(deleted.dir, TEMP_FILE_NAME, file_name, renFails)
             IN  IF renamed.res # SUCCESS THEN Ret(FAILURE, renamed.dir)
                 ELSE Ret(SUCCESS, renamed.dir)

insertLineInFile(dir, file_name, content, line_number, uninit, delFails, renFails) ==
    IF ~fileExists(dir, file_name) THEN Ret(FAILURE, dir)
    ELSE LET line_count == getNumberOfLinesInFile(dir[file_name], uninit)
         IN  IF line_number > line_count \/ line_number < 1 THEN Ret(FAILURE, dir)
             ELSE LET written == Put(OpenWrite(dir, TEMP_FILE_NAME), TEMP_FILE_NAME,
                                     InsertLoop(dir[file_name], 1, 1, line_number, content, <<>>))
                  IN  ReplaceSource(written, file_name, delFails, renFails)

deleteLineFromFile(dir, file_name, line_number, uninit, delFails, renFails) ==
    LET scratch == OpenWrite(dir, TEMP_FILE_NAME)
    IN  IF ~fileExists(dir, file_name) THEN Ret(FAILURE, scratch)
        ELSE IF validateLineNumber(dir[file_name], line_number, uninit) # SUCCESS
        THEN Ret(FAILURE, scratch)
        ELSE LET written == Put(scratch, TEMP_FILE_NAME,
                                DeleteLoop(dir[file_name], 1, 1, line_number, <<>>))
             IN  ReplaceSource(written, file_name, delFails, renFails)

\* res, and out: the characters printed for the line
showLineFromFile(dir, file_name, line_number, uninit) ==
    IF ~fileExists(dir, file_name) THEN [res |-> FAILURE, out |-> <<>>]
    ELSE IF validateLineNumber(dir[file_name], line_number, uninit) # SUCCESS
    THEN [res |-> FAILURE, out |-> <<>>]
    ELSE [res |-> SUCCESS, out |-> ShowLoop(dir[file_name], 1, 1, line_number, <<>>)]

(* ----------------------------- the dispatcher -------------------------- *)

\* what the last dispatcher call was given and what it returned; logged is
\* whether it went on to call addActionToChangelog and that returned SUCCESS,
\* refused is the step of a rewrite the system refused ("none", "delete" of
\* the source, "rename" of the scratch file)
Call(op, file, src, n, content, res, logged) ==
    [op |-> op, file |-> file, src |-> src, n |-> n, content |-> content,
     res |-> res, logged |-> logged, refused |-> "none"]

RECURSIVE CharsIn(_, _)
CharsIn(dir, names) ==
    IF names = {} THEN 0
    ELSE LET x == CHOOSE y \in names : TRUE
         IN  Len(dir[x]) + CharsIn(dir, names \ {x})

RECURSIVE LinesIn(_, _)
LinesIn(dir, names) ==
    IF names = {} THEN 0
    ELSE LET x == CHOOSE y \in names : TRUE
         IN  CountLines(dir[x]) + LinesIn(dir, names \ {x})

\* characters held by the target files of a working directory
DiskUse(dir) == CharsIn(dir, (DOMAIN dir) \ {TEMP_FILE_NAME})

\* audit lines held by a changelog directory
LogUse(log) == LinesIn(log, DOMAIN log)

\* line numbers the operator types for a file: negative, zero, every line
\* of the file and the one behind the last
LineNumbers(dir, file_name) ==
    (0 - 1) .. (IF fileExists(dir, file_name) THEN CountLines(dir[file_name]) + 1 ELSE 1)

\* outcomes of a delete or rename call: FALSE is success, TRUE is refusal
IOOutcomes(b) == IF ioFailures < b.io THEN BOOLEAN ELSE {FALSE}

Refused(delFails, renFails) == IF delFails \/ renFails THEN 1 ELSE 0

\* a rewrite of file_name at line_number gets past the opening of the source
\* and the validation of the line number, to the delete of the source
ReachesReplace(dir, file_name, line_number, uninit) ==
    IF fileExists(dir, file_name)
    THEN validateLineNumber(dir[file_name], line_number, uninit) = SUCCESS
    ELSE FALSE

\* the system can refuse only a call that is made: the delete when the
\* rewrite reaches it, the rename when the delete went through
RefusalHappens(reaches, delFails, renFails) ==
    IF delFails THEN reaches /\ ~renFails
    ELSE IF renFails THEN reaches
    ELSE TRUE

RefusedStep(delFails, renFails) ==
    IF delFails THEN "delete" ELSE IF renFails THEN "rename" ELSE "none"

Init ==
    /\ cwd = EmptyDir
    /\ clog = EmptyDir
    /\ last = Call("start", "", "", 0, <<>>, SUCCESS, FALSE)
    /\ ioFailures = 0

\* the dispatcher logging whatever the operation returned
LogRegardless(res, dir, file_name, action, uninit) ==
    addActionToChangelog(dir, clog, file_name, action, uninit)

\* the dispatcher's "if (!error) addActionToChangelog(...)": its result and
\* the changelog directory afterwards
LogOnSuccess(res, dir, file_name, action, uninit) ==
    IF res = SUCCESS
    THEN addActionToChangelog(dir, clog, file_name, action, uninit)
    ELSE Ret(FAILURE, clog)

createFileMain(b) ==
    \E file_name \in b.names, uninit \in Uninitialised :
        LET r == createFile(cwd, file_name)
            log == LogOnSuccess(r.res, r.dir, file_name, ACTION_CREATE_FILE, uninit)
        IN  /\ LogUse(log.dir) <= b.log
            /\ cwd' = r.dir
            /\ clog' = log.dir
            /\ last' = Call("create", file_name, "", 0, <<>>, r.res, log.res = SUCCESS)
            /\ UNCHANGED ioFailures

displayFileMain(b) ==
    \E file_name \in b.names, uninit \in Uninitialised :
        LET res == displayFile(cwd, file_name)
            log == LogOnSuccess(res, cwd, file_name, ACTION_READ_FILE, uninit)
        IN  /\ LogUse(log.dir) <= b.log
            /\ cwd' = cwd
            /\ clog' = log.dir
            /\ last' = Call("readFile", file_name, "", 0, <<>>, res, log.res = SUCCESS)
            /\ UNCHANGED ioFailures

copyFileMain(b) ==
    \E source_file_name \in b.names, new_file_name \in b.names,
       stray \in StrayBytes, uninit \in Uninitialised :
        LET r == copyFile(cwd, source_file_name, new_file_name, stray)
            log == LogOnSuccess(r.res, r.dir, new_file_name, ACTION_CREATE_FILE, uninit)
        IN  /\ LogUse(log.dir) <= b.log
            /\ DiskUse(r.dir) <= b.disk
            /\ cwd' = r.dir
            /\ clog' = log.dir
            /\ last' = Call("copy", new_file_name, source_file_name, 0, <<>>, r.res, log.res = SUCCESS)
            /\ UNCHANGED ioFailures

deleteFileMain(b) ==
    \E file_name \in b.names :
        LET r == deleteFile(cwd, file_name, FALSE)
        IN  /\ cwd' = r.dir
            /\ clog' = IF r.res = SUCCESS THEN deleteFileFromChangelog(clog, file_name).dir ELSE clog
            /\ last' = Call("deleteFile", file_name, "", 0, <<>>, r.res, FALSE)
            /\ UNCHANGED ioFailures

appendLineMain(b) ==
    \E file_name \in b.names, line_content \in b.contents, uninit \in Uninitialised :
        LET r == appendLineToFile(cwd, file_name, line_content)
            log == LogOnSuccess(r.res, r.dir, file_name, ACTION_APPEND_LINE, uninit)
        IN  /\ LogUse(log.dir) <= b.log
            /\ DiskUse(r.dir) <= b.disk
            /\ cwd' = r.dir
            /\ clog' = log.dir
            /\ last' = Call("appendLine", file_name, "", 0, line_content, r.res, log.res = SUCCESS)
            /\ UNCHANGED ioFailures

deleteLineMain(b) ==
    \E file_name \in b.names, uninit \in Uninitialised, uninit2 \in Uninitialised,
       delFails \in IOOutcomes(b), renFails \in IOOutcomes(b) :
      \E line_number_int \in LineNumbers(cwd, file_name) :
        LET r == deleteLineFromFile(cwd, file_name, line_number_int, uninit, delFails, renFails)
            log == LogOnSuccess(r.res, r.dir, file_name, ACTION_DELETE_LINE, uninit2)
        IN  /\ LogUse(log.dir) <= b.log
            /\ RefusalHappens(ReachesReplace(cwd, file_name, line_number_int, uninit),
                              delFails, renFails)
            /\ cwd' = r.dir
            /\ clog' = log.dir
            /\ last' = [Call("deleteLine", file_name, "", line_number_int, <<>>,
                             r.res, log.res = SUCCESS)
                           EXCEPT !.refused = RefusedStep(delFails, renFails)]
            /\ ioFailures' = ioFailures + Refused(delFails, renFails)

insertLineMain(b) ==
    \E file_name \in b.names, line_content \in b.contents,
       uninit \in Uninitialised, uninit2 \in Uninitialised,
       delFails \in IOOutcomes(b), renFails \in IOOutcomes(b) :
      \E line_number_int \in LineNumbers(cwd, file_name) :
        LET r == insertLineInFile(cwd, file_name, line_content, line_number_int,
                                  uninit, delFails, renFails)
            log == LogOnSuccess(r.res, r.dir, file_name, ACTION_INSERT_LINE, uninit2)
        IN  /\ LogUse(log.dir) <= b.log
            /\ DiskUse(cwd) + Len(line_content) + 1 <= b.disk
            /\ RefusalHappens(ReachesReplace(cwd, file_name, line_number_int, uninit),
                              delFails, renFails)
            /\ cwd' = r.dir
            /\ clog' = log.dir
            /\ last' = [Call("insertLine", file_name, "", line_number_int, line_content,
                             r.res, log.res = SUCCESS)
                           EXCEPT !.refused = RefusedStep(delFails, renFails)]
            /\ ioFailures' = ioFailures + Refused(delFails, renFails)

showLineMain(b) ==
    \E file_name \in b.names, uninit \in Uninitialised, uninit2 \in Uninitialised :
      \E line_number_int \in LineNumbers(cwd, file_name) :
        LET r == showLineFromFile(cwd, file_name, line_number_int, uninit)
            log == LogOnSuccess(r.res, cwd, file_name, ACTION_READ_LINE, uninit2)
        IN  /\ LogUse(log.dir) <= b.log
            /\ cwd' = cwd
            /\ clog' = log.dir
            /\ last' = Call("readLine", file_name, "", line_number_int, <<>>, r.res, log.res = SUCCESS)
            /\ UNCHANGED ioFailures

getLinesMain(b) ==
    \E file_name \in b.names, uninit \in Uninitialised :
        LET res == displayNumberOfLinesInFile(cwd, file_name)
            log == LogOnSuccess(res, cwd, file_name, ACTION_READ_FILE, uninit)
        IN  /\ LogUse(log.dir) <= b.log
            /\ cwd' = cwd
            /\ clog' = log.dir
            /\ last' = Call("countLines", file_name, "", 0, <<>>, res, log.res = SUCCESS)
            /\ UNCHANGED ioFailures

resetChangelogMain(b) ==
    \E file_name \in b.names :
        LET r == resetChangelog(clog, file_name)
        IN  /\ cwd' = cwd
            /\ clog' = r.dir
            /\ last' = Call("resetChangelog", file_name, "", 0, <<>>, r.res, FALSE)
            /\ UNCHANGED ioFailures

showChangelogMain(b) ==
    \E file_name \in b.names :
        /\ UNCHANGED <<cwd, clog, ioFailures>>
        /\ last' = Call("showChangelog", file_name, "", 0, <<>>, showChangelog(clog, file_name), FALSE)

\* every operation of the menu that takes a file name
Next ==
    \/ createFileMain(FullScope)
    \/ displayFileMain(FullScope)
    \/ copyFileMain(FullScope)
    \/ deleteFileMain(FullScope)
    \/ appendLineMain(FullScope)
    \/ deleteLineMain(FullScope)
    \/ insertLineMain(FullScope)
    \/ showLineMain(FullScope)
    \/ getLinesMain(FullScope)
    \/ resetChangelogMain(FullScope)
    \/ showChangelogMain(FullScope)

Spec == Init /\ [][Next]_vars

\* the line-editing operations on one file
NextEdit ==
    \/ createFileMain(EditScope)
    \/ deleteFileMain(EditScope)
    \/ appendLineMain(EditScope)
    \/ deleteLineMain(EditScope)
    \/ insertLineMain(EditScope)
    \/ showLineMain(EditScope)
    \/ resetChangelogMain(EditScope)

SpecEdit == Init /\ [][NextEdit]_vars

\* the rewrite operations on one file, with refused delete and rename calls
NextIO ==
    \/ createFileMain(IOScope)
    \/ appendLineMain(IOScope)
    \/ deleteLineMain(IOScope)
    \/ insertLineMain(IOScope)

SpecIO == Init /\ [][NextIO]_vars

\* creating, copying, editing and deleting two files
NextCopy ==
    \/ createFileMain(CopyScope)
    \/ displayFileMain(CopyScope)
    \/ copyFileMain(CopyScope)
    \/ deleteFileMain(CopyScope)
    \/ appendLineMain(CopyScope)
    \/ deleteLineMain(CopyScope)
    \/ resetChangelogMain(CopyScope)

SpecCopy == Init /\ [][NextCopy]_vars

(* ------------------------ vocabulary of the properties ----------------- *)

\* the position of the k-th line break of s at or after position i (k >= 1),
\* Len(s) + 1 when there is none
RECURSIVE BreakAt(_, _, _)
BreakAt(s, k, i) ==
    IF i > Len(s) THEN Len(s) + 1
    ELSE IF s[i] = NL THEN (IF k = 1 THEN i ELSE BreakAt(s, k - 1, i + 1))
    ELSE BreakAt(s, k, i + 1)

\* the position of the first character of line n
LineStart(s, n) == IF n = 1 THEN 1 ELSE BreakAt(s, n - 1, 1) + 1

\* the characters of line n, without its line break
TextOfLine(s, n) == SubSeq(s, LineStart(s, n), BreakAt(s, n, 1) - 1)

\* s with the characters of line n and its trailing line break removed
WithoutLine(s, n) == SubSeq(s, 1, LineStart(s, n) - 1) \o SubSeq(s, BreakAt(s, n, 1) + 1, Len(s))

\* how many lines of s have the text line
Occurrences(s, line) == Cardinality({k \in 1 .. CountLines(s) : TextOfLine(s, k) = line})

IsPrefix(a, b) == Len(a) <= Len(b) /\ SubSeq(b, 1, Len(a)) = a

\* what readLine yields for a line number it accepts
ReadLine(s, n) == ShowLoop(s, 1, 1, n, <<>>)

\* the changelog record of a target file, empty when there is none
Record(log, file_name) ==
    IF fileExists(log, getChangelogFileName(file_name))
    THEN log[getChangelogFileName(file_name)]
    ELSE <<>>

\* dispatcher operations that log on success
LoggingOps ==
    {"create", "copy", "appendLine", "insertLine", "deleteLine", "readFile", "readLine",
     "countLines"}

\* the step is a successful call of op
Did(op) == last'.op = op /\ last'.res = SUCCESS

(* ------------------------------ properties ----------------------------- *)

\* C1: a successful deleteLine(f, n) leaves the file with lineCount - 1 line
\* breaks, and one occurrence less of the removed line's text.
C1_DeleteLineCount ==
    [][Did("deleteLine") =>
          LET f == last'.file
              line == TextOfLine(cwd[f], last'.n)
          IN  /\ CountLines(cwd'[f]) = CountLines(cwd[f]) - 1
              /\ Occurrences(cwd'[f], line) = Occurrences(cwd[f], line) - 1]_vars

\* C2: after a successful insertLine(f, content, n), readLine(f, n) yields
\* content and readLine(f, n + 1) yields the line that was at n before.
C2_InsertThenRead ==
    [][Did("insertLine") =>
          LET f == last'.file
              n == last'.n
          IN  /\ ReadLine(cwd'[f], n) = last'.content
              /\ ReadLine(cwd'[f], n + 1) = ReadLine(cwd[f], n)]_vars

\* insertLine(f, c, n) and then deleteLine(f, n), both accepted and with no
\* call refused by the system, on the file s
InsertThenDelete(s, c, n) ==
    LET dir == Put(EmptyDir, "f", s)
        inserted == insertLineInFile(dir, "f", c, n, 0, FALSE, FALSE)
    IN  deleteLineFromFile(inserted.dir, "f", n, 0, FALSE, FALSE).dir["f"]

\* C3: for every target file and every line number valid in it, insertLine
\* followed by deleteLine at the same line number restores the content.
C3_RoundTrip ==
    \A f \in (DOMAIN cwd) \ {TEMP_FILE_NAME} :
        \A n \in 1 .. CountLines(cwd[f]), c \in EditScope.contents :
            InsertThenDelete(cwd[f], c, n) = cwd[f]

\* C4: insertLine, deleteLine and readLine fail for every line number below 1
\* and above the line count (so for every number on a file with no line),
\* and the target file keeps its content.
C4_OutOfRange ==
    [][(/\ last'.op \in {"insertLine", "deleteLine", "readLine"}
        /\ fileExists(cwd, last'.file)
        /\ (last'.n < 1 \/ last'.n > CountLines(cwd[last'.file])))
       => (/\ last'.res = FAILURE
           /\ fileExists(cwd', last'.file)
           /\ cwd'[last'.file] = cwd[last'.file])]_vars

\* insertLine at line 1 of an empty file was rejected
C4_Witness ==
    /\ last.op = "insertLine" /\ last.n = 1 /\ last.res = FAILURE
    /\ fileExists(cwd, last.file) /\ cwd[last.file] = <<>>

\* C5: a successful deleteLine(f, n) leaves the original content without
\* the characters of line n and its trailing line break.
C5_DeleteLineContent ==
    [][Did("deleteLine") =>
          cwd'[last'.file] = WithoutLine(cwd[last'.file], last'.n)]_vars

\* C6: a dispatcher operation that failed leaves the changelog directory as
\* it was: no record is created and no audit line is appended.
C6_FailureNotLogged ==
    [][(last'.op \in LoggingOps /\ last'.res # SUCCESS)
       => (clog' = clog /\ ~last'.logged)]_vars

\* deleteLine failed on a file that has a changelog record
C6_Witness ==
    /\ last.op = "deleteLine" /\ last.res = FAILURE
    /\ fileExists(cwd, last.file)
    /\ CountLines(Record(clog, last.file)) >= 1

\* the line count the last audit line of a changelog record states
AuditCount(record) == record[Len(record) - 1]

\* C7: after a successful logging operation on f, the count in the last line
\* of f's changelog record is f's line count.
C7_LoggedCountIsCurrent ==
    (last.op \in LoggingOps /\ last.logged)
    => AuditCount(Record(clog, last.file)) = ToString(CountLines(cwd[last.file]))

\* C8: a successful recordAction appends exactly one line to the target's
\* record and keeps the lines it held as a prefix; no step other than a
\* reset or a file deletion removes a record or changes recorded lines.
C8_AppendOnly ==
    [][/\ last'.logged =>
             /\ fileExists(clog', getChangelogFileName(last'.file))
             /\ CountLines(Record(clog', last'.file)) = CountLines(Record(clog, last'.file)) + 1
             /\ Len(Record(clog', last'.file)) > Len(Record(clog, last'.file))
             /\ Record(clog', last'.file)[Len(Record(clog', last'.file))] = NL
       /\ last'.op \notin {"resetChangelog", "deleteFile"} =>
             \A path \in DOMAIN clog :
                 fileExists(clog', path) /\ IsPrefix(clog[path], clog'[path])]_vars

\* a second audit line was appended to a record
C8_Witness ==
    /\ last.logged
    /\ CountLines(Record(clog, last.file)) = 2

\* C9: a successful resetChangelog(f) removes f's record, and a recordAction
\* on f that follows it leaves a record of exactly one line.
C9_ResetThenRecord ==
    [][/\ Did("resetChangelog") => ~fileExists(clog', getChangelogFileName(last'.file))
       /\ (/\ last.op = "resetChangelog" /\ last.res = SUCCESS
           /\ last'.logged /\ last'.file = last.file)
          => (/\ CountLines(Record(clog', last'.file)) = 1
              /\ Record(clog', last'.file)[Len(Record(clog', last'.file))] = NL)]_vars

\* an append was logged into a record that holds this one line only: the
\* record that create had begun was reset before
C9_Witness ==
    /\ last.op = "appendLine" /\ last.logged
    /\ CountLines(Record(clog, last.file)) = 1

\* C10: create(name) fails and changes no file when name exists, and makes
\* a file of length zero when it does not.
C10_Create ==
    [][last'.op = "create" =>
          IF fileExists(cwd, last'.file)
          THEN last'.res = FAILURE /\ cwd' = cwd
          ELSE /\ last'.res = SUCCESS
               /\ cwd' = Put(cwd, last'.file, <<>>)]_vars

\* create was refused on a file that has content
C10_Witness ==
    /\ last.op = "create" /\ last.res = FAILURE
    /\ fileExists(cwd, last.file) /\ Len(cwd[last.file]) > 0

\* C11: copy(source, dest) fails and changes no file when dest exists or
\* source is missing; otherwise it creates dest with exactly the content of
\* source and leaves every other file as it was.
C11_Copy ==
    [][last'.op = "copy" =>
          IF fileExists(cwd, last'.file) \/ ~fileExists(cwd, last'.src)
          THEN last'.res = FAILURE /\ cwd' = cwd
          ELSE /\ last'.res = SUCCESS
               /\ cwd' = Put(cwd, last'.file, cwd[last'.src])]_vars

\* s with the line content put in front of line n
WithLineBefore(s, content, n) ==
    SubSeq(s, 1, LineStart(s, n) - 1) \o content \o <<NL>>
        \o SubSeq(s, LineStart(s, n), Len(s))

\* C12: a successful insertLine(f, content, n) leaves lines 1..n-1, then
\* content as a new line, then the original lines n..lineCount, every
\* original character kept; the line count grows by one.
C12_InsertFrame ==
    [][Did("insertLine") =>
          /\ cwd'[last'.file] = WithLineBefore(cwd[last'.file], last'.content, last'.n)
          /\ CountLines(cwd'[last'.file]) = CountLines(cwd[last'.file]) + 1]_vars

\* the rewrite operations of the dispatcher
RewriteOps == {"insertLine", "deleteLine"}

\* C13: the scratch file is opened only after the line number was validated:
\* an insertLine or deleteLine that fails before the delete of the source
\* (missing target, line number out of range) leaves the working directory
\* as it was, the scratch file neither created nor truncated and the source
\* neither deleted nor modified.
C13_ScratchAfterValidate ==
    [][(/\ last'.op \in RewriteOps
        /\ last'.res = FAILURE
        /\ last'.refused = "none")
       => cwd' = cwd]_vars

\* C14: when the delete of the source is refused, insertLine and deleteLine
\* return failure, the scratch file is removed and every other file, the
\* target with its original content included, is as it was (so no rename
\* took place); nothing is logged.
C14_DeleteRefused ==
    [][(last'.op \in RewriteOps /\ last'.refused = "delete")
       => (/\ last'.res = FAILURE
           /\ ~fileExists(cwd', TEMP_FILE_NAME)
           /\ fileExists(cwd', last'.file)
           /\ cwd'[last'.file] = cwd[last'.file]
           /\ cwd' = Remove(cwd, TEMP_FILE_NAME)
           /\ clog' = clog)]_vars

\* the delete of a source that holds a line was refused during an insertLine
C14_Witness ==
    /\ last.op = "insertLine" /\ last.refused = "delete"
    /\ fileExists(cwd, last.file) /\ CountLines(cwd[last.file]) >= 1

\* what a rewrite call streams into the scratch file
Rewritten(call, s) ==
    IF call.op = "insertLine"
    THEN InsertLoop(s, 1, 1, call.n, call.content, <<>>)
    ELSE DeleteLoop(s, 1, 1, call.n, <<>>)

\* C15: when the delete of the source went through and the rename of the
\* scratch file is refused, insertLine and deleteLine return failure, the
\* target no longer exists, the rewritten content is in the scratch file
\* only, and the dispatcher appends no audit line.
C15_RenameRefused ==
    [][(last'.op \in RewriteOps /\ last'.refused = "rename")
       => (/\ last'.res = FAILURE
           /\ ~fileExists(cwd', last'.file)
           /\ fileExists(cwd', TEMP_FILE_NAME)
           /\ cwd'[TEMP_FILE_NAME] = Rewritten(last', cwd[last'.file])
           /\ ~last'.logged
           /\ clog' = clog)]_vars

\* the rename was refused during a deleteLine: the target is gone and the
\* scratch file is left
C15_Witness ==
    /\ last.op = "deleteLine" /\ last.refused = "rename"
    /\ ~fileExists(cwd, last.file)
    /\ fileExists(cwd, TEMP_FILE_NAME)

\* the changelog records whose target file does not exist
Orphans == {path \in DOMAIN clog :
               \A f \in (DOMAIN cwd) \ {TEMP_FILE_NAME} : path # getChangelogFileName(f)}

C17_ScratchTransient ==
    ioFailures = 0 => ~fileExists(cwd, TEMP_FILE_NAME)

\* C18: every target file is empty or ends with a line break, so that the
\* number of its line breaks is the number of its lines.
C18_LinesTerminated ==
    \A f \in (DOMAIN cwd) \ {TEMP_FILE_NAME} :
        Len(cwd[f]) > 0 => cwd[f][Len(cwd[f])] = NL

====
